---- MODULE Spec2Model ----
(***************************************************************************)
(* Mutation-driven cache consistency of the library management client:     *)
(* the React Query mutation hooks (hooks/useMutations), the generic        *)
(* resource hooks of REACT_QUERY_SETUP_GUIDE.md, the query cache they      *)
(* reconcile, the toast notifications they emit and the components that    *)
(* invoke them.                                                            *)
(***************************************************************************)
EXTENDS Integers, Sequences, FiniteSets, TLC

\* ------------------------------------------------------------------------
\* Bounds of the model
\* ------------------------------------------------------------------------
MaxInvocations == 1

\* ------------------------------------------------------------------------
\* Strings.  A string is a sequence of tokens; s.includes(sub) is the test
\* for a contiguous occurrence, a || b is JavaScript's falsy-or on strings.
\* ------------------------------------------------------------------------
Includes(s, sub) ==
  \E i \in 0..(Len(s) - Len(sub)) : \A j \in 1..Len(sub) : s[i + j] = sub[j]

OrElse(a, b) == IF a # <<>> THEN a ELSE b

\* ------------------------------------------------------------------------
\* Mutation kinds: the hooks of hooks/useMutations and the guide's
\* useUpdateResource and useDeleteResource.
\* ------------------------------------------------------------------------
GuideKinds == {"updateResource", "deleteResource"}

HookKinds == {"updateBook", "deleteBook", "borrow", "approveBorrow",
              "rejectBorrow", "returnBook", "approveAdminRequest",
              "updateFineConfig", "updateOverdueFines"}

Kinds == GuideKinds \cup HookKinds

\* hooks whose mutationFn unwraps a {success, error|message} result and
\* throws new Error(result.error || "<default>") on !result.success
WrappedKinds ==
  Kinds \ {"updateFineConfig", "updateOverdueFines", "updateResource",
           "deleteResource"}

DefaultMsg(kind) ==
  CASE kind = "updateBook"          -> <<"Failed to update book">>
    [] kind = "deleteBook"          -> <<"Failed to delete book(s)">>
    [] kind = "borrow"              -> <<"Failed to request book">>
    [] kind = "approveBorrow"       -> <<"Failed to approve borrow request">>
    [] kind = "rejectBorrow"        -> <<"Failed to reject borrow request">>
    [] kind = "returnBook"          -> <<"Failed to return book">>
    [] kind = "approveAdminRequest" -> <<"Failed to approve admin request">>
    [] OTHER                        -> <<>>

\* substring the onError handler looks for, and the user message it selects
Pattern(kind) ==
  CASE kind = "deleteBook"          -> <<"active borrows">>
    [] kind = "approveBorrow"       -> <<"no longer available">>
    [] kind = "approveAdminRequest" -> <<"already been processed">>
    [] kind = "updateFineConfig"    -> <<"positive number">>
    [] OTHER                        -> <<>>

SpecificMsg(kind) ==
  CASE kind = "deleteBook"          -> <<"Books with ", "active borrows", " cannot be deleted.">>
    [] kind = "approveBorrow"       -> <<"The book is ", "no longer available", ".">>
    [] kind = "approveAdminRequest" -> <<"This request has ", "already been processed", ".">>
    [] kind = "updateFineConfig"    -> <<"Fine amount must be a ", "positive number", ".">>
    [] OTHER                        -> <<>>

GenericMsg(kind) ==
  CASE kind = "updateResource"      -> <<"Failed to update resource">>
    [] kind = "deleteResource"      -> <<"Failed to delete resource">>
    [] kind = "updateBook"          -> <<"Unable to update. Please check your input and try again.">>
    [] kind = "deleteBook"          -> <<"Unable to delete. ">>
    [] kind = "borrow"              -> <<"Unable to request. Please try again.">>
    [] kind = "approveBorrow"       -> <<"Unable to approve borrow request. ">>
    [] kind = "rejectBorrow"        -> <<"Unable to reject borrow request. Please try again.">>
    [] kind = "returnBook"          -> <<"Unable to return. Please try again.">>
    [] kind = "approveAdminRequest" -> <<"Unable to approve admin request. ">>
    [] kind = "updateOverdueFines"  -> <<"Unable to update overdue fines. Please try again.">>
    [] OTHER                        -> <<"Unable to update fine configuration. ">>

PleaseTryAgain == <<"Please try again.">>

\* the template literal after `error.message ||` in each onError handler
FallbackMsg(kind, message) ==
  IF Pattern(kind) = <<>>
    THEN GenericMsg(kind)
    ELSE GenericMsg(kind) \o (IF Includes(message, Pattern(kind))
                                THEN SpecificMsg(kind)
                                ELSE PleaseTryAgain)

\* text handed to showToast.error / toast.error by onError
ErrorToastText(kind, message) == OrElse(message, FallbackMsg(kind, message))

\* messages a service may report for a rejected operation
PlainSvcMsg == <<"Rejected by the service">>

SvcMsgs(kind) ==
  {<<>>, PlainSvcMsg} \cup
  (IF Pattern(kind) = <<>> THEN {} ELSE {<<"Request: ">> \o Pattern(kind)})

\* messages of an exception thrown by the call itself (service unreachable)
NetMsgs == {<<>>, <<"fetch failed">>}

ThrownMessage_AlwaysDefault(kind, svcMsg) ==
  IF kind \in WrappedKinds THEN DefaultMsg(kind) ELSE svcMsg

\* error.message seen by onError when the service resolved {success: false}
ThrownMessage(kind, svcMsg) ==
  IF kind \in WrappedKinds THEN OrElse(svcMsg, DefaultMsg(kind)) ELSE svcMsg

\* ------------------------------------------------------------------------
\* The query cache.  A fingerprint is a query key (a sequence of strings);
\* an entry holds the last known value, the invalidation flag and a logical
\* lastFetchedAt (the number of writes the entry has received).
\* ------------------------------------------------------------------------
KResource == <<"resource", "r1">>

KResources == <<"resources">>

KDashboard == <<"dashboard-stats">>

KBooks == <<"books">>

KBorrows == <<"borrows", "u1">>

GuideKeys == {KResource, KResources, KDashboard}

AppKeys == {KBooks, KBorrows}

Keys == GuideKeys \cup AppKeys

Payloads == {1}

NoRev == 0 - 1

Absent == [value |-> [data |-> 0, rev |-> NoRev], stale |-> FALSE, at |-> 0]

\* what the caller can synthesize from the request parameters alone
RawPayload(p) == [data |-> p, rev |-> NoRev]

SetQueryData_Merges(c, key, v) ==
  [c EXCEPT ![key] =
     [value |-> IF c[key].at = 0 THEN v
                ELSE [data |-> c[key].value.data, rev |-> v.rev],
      stale |-> FALSE, at |-> c[key].at + 1]]

\* queryClient.setQueryData(key, value): direct overwrite, creates the
\* entry when missing, clears the invalidation flag
SetQueryData(c, key, v) ==
  [c EXCEPT ![key] = [value |-> v, stale |-> FALSE, at |-> c[key].at + 1]]

HasPrefix(key, prefix) ==
  /\ Len(prefix) <= Len(key)
  /\ \A i \in 1..Len(prefix) : key[i] = prefix[i]

\* k is cached and one of the key prefixes matches it
Matches(c, k, prefixes) ==
  c[k] # Absent /\ \E p \in prefixes : HasPrefix(k, p)

\* fingerprints currently cached that a set of key prefixes matches
Matching(c, prefixes) == {k \in Keys : Matches(c, k, prefixes)}

\* queryClient.invalidateQueries({queryKey: p, exact: false}) for each p
InvalidateQueries(c, prefixes) ==
  [k \in Keys |-> IF Matches(c, k, prefixes)
                    THEN [c[k] EXCEPT !.stale = TRUE]
                    ELSE c[k]]

\* guide: invalidateDashboardQueries
DashboardPrefixes == {<<"dashboard-stats">>, <<"all-resources">>}

\* guide: invalidateAfterResourceChange(queryClient, entityName = "resources")
ResourceChangePrefixes == DashboardPrefixes \cup {<<"resources">>, <<"resource">>}

InvalidateAfterResourceChange(c) == InvalidateQueries(c, ResourceChangePrefixes)

DeleteResourceReconcile_RemovesDetail(c) ==
  [InvalidateAfterResourceChange(c) EXCEPT ![KResource] = Absent]

\* guide, useDeleteResource.onSuccess: invalidateAfterResourceChange, then
\* invalidateQueries({queryKey: ["resource", resourceId]})
DeleteResourceReconcile(c) ==
  InvalidateQueries(InvalidateAfterResourceChange(c), {KResource})

\* lib/utils/queryInvalidation: the callers document what each invalidates
BookChangePrefixes ==
  {<<"books">>, <<"borrows">>, <<"reviews">>, <<"analytics">>, <<"admin-stats">>}

BorrowChangePrefixes ==
  {<<"borrows">>, <<"books">>, <<"reviews">>, <<"analytics">>, <<"admin-stats">>}

AdminChangePrefixes == {<<"users">>, <<"admin-requests">>, <<"admin-stats">>}

UserChangePrefixes ==
  {<<"users">>, <<"borrows">>, <<"reviews">>, <<"analytics">>, <<"admin-stats">>}

InvalidateAfterBookChange(c) == InvalidateQueries(c, BookChangePrefixes)

InvalidateAfterBorrowChange(c) == InvalidateQueries(c, BorrowChangePrefixes)

InvalidateAfterAdminChange(c) == InvalidateQueries(c, AdminChangePrefixes)

InvalidateAfterUserChange(c) == InvalidateQueries(c, UserChangePrefixes)

\* the invalidation calls each hook's onSuccess makes, in order
HookInvalidation(kind, c) ==
  CASE kind \in {"updateBook", "deleteBook"} -> InvalidateAfterBookChange(c)
    [] kind \in {"borrow", "approveBorrow", "rejectBorrow", "returnBook"} ->
         InvalidateAfterBorrowChange(c)
    [] kind = "approveAdminRequest" ->
         InvalidateAfterUserChange(InvalidateAfterAdminChange(c))
    [] kind \in {"updateFineConfig", "updateOverdueFines"} ->
         InvalidateAfterBorrowChange(InvalidateAfterAdminChange(c))
    [] kind = "deleteResource" -> DeleteResourceReconcile(c)
    [] OTHER -> InvalidateAfterResourceChange(c)

\* the prefixes those calls cover: InvalidationRule of the entity type
InvalidationRule(kind) ==
  CASE kind \in {"updateBook", "deleteBook"} -> BookChangePrefixes
    [] kind \in {"borrow", "approveBorrow", "rejectBorrow", "returnBook"} ->
         BorrowChangePrefixes
    [] kind = "approveAdminRequest" -> AdminChangePrefixes \cup UserChangePrefixes
    [] kind \in {"updateFineConfig", "updateOverdueFines"} ->
         AdminChangePrefixes \cup BorrowChangePrefixes
    [] OTHER -> ResourceChangePrefixes

\* the fingerprints that address the mutated entity itself
OwnKeys(kind) ==
  CASE kind = "updateResource" -> {KResource, KResources}
    [] kind \in {"updateBook", "deleteBook"} -> {KBooks}
    [] kind \in {"approveBorrow", "rejectBorrow", "returnBook"} -> {KBorrows}
    [] OTHER -> {}

\* the detail and the list fingerprints of the entity a delete removes
DeleteKinds == {"deleteBook", "deleteResource"}

DetailKeys(kind) == IF kind = "deleteResource" THEN {KResource} ELSE {}

ListKeys(kind) ==
  CASE kind = "deleteResource" -> {KResources}
    [] kind = "deleteBook"     -> {KBooks}
    [] OTHER                   -> {}

\* ------------------------------------------------------------------------
\* State
\* ------------------------------------------------------------------------
VARIABLES
  cache,      \* the query cache: fingerprint -> entry
  fetching,   \* fingerprints with a query fetch in flight
  server,     \* canonical state held by the data service
  mut,        \* per mutation hook: the lifecycle of its current mutation
  invoked,    \* number of user-initiated mutate() calls made so far
  fine,       \* FineManagement: the edited amount, the last save click
  reader,     \* per reader: the fingerprint it last read and what it got
  calls,      \* per fingerprint: fetcher invocations of the pending fetch
  nav,        \* BorrowBook: the page shown, the navigation timer, the events
  logout,     \* the logout control: its flag, the signOut call, the events
  tabs,       \* MyProfileTabs: query data, refs, the list handed to the UI
  book        \* BookBorrowButton: the props of the book page

vars == <<cache, fetching, server, mut, invoked, fine, reader, calls, nav,
          logout, tabs, book>>

MutationRetry_Once == 0 + 1

\* mutations: { retry: 0 }
MutationRetry == 0

IdleMutation ==
  [phase |-> "idle", payload |-> 0, data |-> RawPayload(0),
   svc |-> <<>>, message |-> <<>>, cause |-> "none",
   calls |-> 0, failureCount |-> 0, trail |-> <<>>, notes |-> <<>>,
   wrote |-> {}, marked |-> {}]

\* mutation.isPending: from mutate() until the callbacks have run
IsPending(o) ==
  mut[o].phase \in {"executing", "succeeded", "failed", "reconciling"}

Amounts == {-1} \cup Payloads

\* components reading the same queries
Readers == {"a", "b"}

NoKey == <<>>

IdleReader == [key |-> NoKey, got |-> RawPayload(0)]

\* BorrowBook as rendered on a book page: `delayed` tells the revision of
\* the component (setTimeout before router.push, or router.push at once)
BookPage(isEligible, delayed) ==
  [page |-> "/books/b1", isEligible |-> isEligible, delayed |-> delayed,
   timers |-> 0, log |-> <<>>]

\* a logout control as mounted: ProfileDropdown or LogoutButton
\* (useState(false) for isLoggingOut)
LogoutControl(control) ==
  [control |-> control, isLoggingOut |-> FALSE, signOut |-> "none",
   timers |-> 0, clicks |-> 0, page |-> "/app", removed |-> {},
   log |-> <<>>]

\* reactQueryBorrows while the query holds no data, an absent prop
NoData == [defined |-> FALSE, items |-> <<>>]

Data(items) == [defined |-> TRUE, items |-> items]

\* a record of the borrow-records API (dates as day numbers, 0 for null;
\* fineAmount as the decimal string the API sends)
BorrowRecord(id, status, dueDate, fineAmount) ==
  [id |-> id, bookId |-> IF id = "r1" THEN "b1" ELSE "b2", status |-> status,
   dueDate |-> dueDate, returnDate |-> IF status = "RETURNED" THEN 3 ELSE 0,
   fineAmount |-> fineAmount]

\* previousTransformedRef.current.get(id) of an id the map does not hold
NoRecord == [id |-> "undefined"]

RecordIds == {"r1", "r2"}

\* parseFloat of the amounts the API sends
ParseFloat(a) == IF a = "5" THEN 5 ELSE 0

\* fineAmount.toString()
AmountToString(n) == IF n = 5 THEN "5" ELSE "0"

\* an array object: its identity and its elements
ArrayObject(obj, items) == [obj |-> obj, items |-> items]

\* dataChanged: status, bookId, dueDate and returnDate are compared
DataChanged(existingRecord, record) ==
  \/ existingRecord = NoRecord
  \/ existingRecord.status # record.status
  \/ existingRecord.bookId # record.bookId
  \/ existingRecord.dueDate # record.dueDate
  \/ existingRecord.returnDate # record.returnDate

\* the transformed record created for a new or changed record
TransformedRecord(record, obj) ==
  [obj |-> obj, id |-> record.id, bookId |-> record.bookId,
   status |-> record.status, dueDate |-> record.dueDate,
   returnDate |-> record.returnDate,
   fineAmount |-> ParseFloat(record.fineAmount)]

\* reactQueryBorrows.map(...): an unchanged record is the object of the map,
\* a new or changed one is a new object
Transformed(previousTransformed, data, heap) ==
  [i \in 1..Len(data) |->
     IF DataChanged(previousTransformed[data[i].id], data[i])
       THEN TransformedRecord(data[i], heap + i)
       ELSE previousTransformed[data[i].id]]

SameShape_Never(previousItems, transformed) == FALSE

\* previousArray.length === transformed.length && previousArray.every(...)
SameShape(previousItems, transformed) ==
  /\ Len(previousItems) = Len(transformed)
  /\ \A i \in 1..Len(previousItems) :
       /\ previousItems[i].id = transformed[i].id
       /\ previousItems[i].status = transformed[i].status
       /\ previousItems[i].bookId = transformed[i].bookId

\* the position of the record with this id, 0 when there is none
IndexOf(items, id) ==
  IF \E i \in 1..Len(items) : items[i].id = id
    THEN CHOOSE i \in 1..Len(items) : items[i].id = id
    ELSE 0

\* the useMemo deriving allBorrowsFromQuery from reactQueryBorrows
AllBorrowsFromQuery(t, data, isLoggingOut) ==
  IF isLoggingOut
    THEN [t EXCEPT !.allBorrowsFromQuery = t.previousArray]
  ELSE IF ~data.defined \/ Len(data.items) = 0
    THEN IF Len(t.previousArray.items) = 0
           THEN [t EXCEPT !.allBorrowsFromQuery = ArrayObject(t.heap + 1, <<>>),
                          !.heap = @ + 1]
           ELSE [t EXCEPT !.allBorrowsFromQuery = t.previousArray]
  ELSE
    LET transformed ==
          Transformed(t.previousTransformed, data.items, t.heap)
        map == [id \in RecordIds |->
                  IF IndexOf(data.items, id) = 0 THEN NoRecord
                  ELSE transformed[IndexOf(data.items, id)]]
        heap == t.heap + Len(data.items) + 1
    IN IF SameShape(t.previousArray.items, transformed)
         THEN [t EXCEPT !.previousTransformed = map, !.heap = heap,
                        !.allBorrowsFromQuery = t.previousArray]
         ELSE [t EXCEPT !.previousTransformed = map, !.heap = heap,
                        !.previousArray = ArrayObject(heap, transformed),
                        !.allBorrowsFromQuery = ArrayObject(heap, transformed)]

\* the effect on allBorrowsFromQuery: returningRecordIdRef is cleared once
\* the record it names is shown as RETURNED
ClearReturningRef(t) ==
  IF /\ t.returningRecordId # "null"
     /\ \E i \in 1..Len(t.allBorrowsFromQuery.items) :
          /\ t.allBorrowsFromQuery.items[i].id = t.returningRecordId
          /\ t.allBorrowsFromQuery.items[i].status = "RETURNED"
    THEN [t EXCEPT !.returningRecordId = "null"]
    ELSE t

\* a render with new query data: the useMemo, then the effect when the
\* derived list is another object
Rendered(t, data, isLoggingOut) ==
  LET u == AllBorrowsFromQuery([t EXCEPT !.data = data], data, isLoggingOut)
  IN IF u.allBorrowsFromQuery = t.allBorrowsFromQuery
       THEN u ELSE ClearReturningRef(u)

\* the initial data handed to useUserBorrows: the SSR records as BorrowRecord
InitialData(initial) ==
  IF initial.defined
    THEN Data([i \in 1..Len(initial.items) |->
           [id |-> initial.items[i].id, bookId |-> initial.items[i].bookId,
            status |-> initial.items[i].status,
            dueDate |-> initial.items[i].dueDate,
            returnDate |-> initial.items[i].returnDate,
            fineAmount |-> AmountToString(initial.items[i].fineAmount)]])
    ELSE NoData

\* items.filter((record) => record.status === status)
WithStatus(items, status) == SelectSeq(items, LAMBDA r : r.status = status)

\* allBorrows: the derived list, or the initial history while it is empty
AllBorrows(t) ==
  IF Len(t.allBorrowsFromQuery.items) > 0
    THEN t.allBorrowsFromQuery.items
    ELSE t.initial.items

\* the records of the "history" tab
BorrowHistory(t) ==
  IF Len(t.allBorrowsFromQuery.items) > 0
    THEN t.allBorrowsFromQuery.items
    ELSE IF t.initial.defined THEN t.initial.items ELSE AllBorrows(t)

\* the records of the "active" tab
ActiveBorrows(t) ==
  IF Len(t.allBorrowsFromQuery.items) > 0
    THEN WithStatus(t.allBorrowsFromQuery.items, "BORROWED")
    ELSE WithStatus(AllBorrows(t), "BORROWED")

\* MyProfileTabs after its first render with these SSR props
ProfileTabs(initial) ==
  Rendered(
    [initial |-> initial, data |-> NoData,
     previousTransformed |-> [id \in RecordIds |-> NoRecord],
     previousArray |-> ArrayObject(0, <<>>),
     allBorrowsFromQuery |-> ArrayObject(0, <<>>),
     returningRecordId |-> "null", heap |-> 0, deliveries |-> 0,
     clickLog |-> <<>>, started |-> 0, lastReturn |-> "null"],
    InitialData(initial), FALSE)

\* the props BookBorrowButton receives from the book page
BookProps(availableCopies, isActive, userStatus) ==
  [availableCopies |-> availableCopies, isActive |-> isActive,
   userStatus |-> userStatus]

Init ==
  /\ cache = [k \in Keys |-> Absent]
  /\ fetching = {}
  /\ server = [data |-> 0, rev |-> 0]
  /\ mut = [o \in Kinds |-> IdleMutation]
  /\ invoked = 0
  /\ fine = [editableAmount |-> 1, lastSave |-> "none", notes |-> <<>>]
  /\ reader = [r \in Readers |-> IdleReader]
  /\ calls = [k \in Keys |-> 0]
  /\ nav = BookPage(TRUE, TRUE)
  /\ logout = LogoutControl("ProfileDropdown")
  /\ tabs = ProfileTabs(NoData)
  /\ book = BookProps(1, TRUE, "APPROVED")

\* ------------------------------------------------------------------------
\* Queries (useQuery with staleTime: Infinity, refetchOnMount: true)
\* ------------------------------------------------------------------------
ShouldFetch_StaleTimeZero(c, k) == TRUE

\* staleTime: Infinity, refetchOnMount: true: a query fetches when it has no
\* data or its data was invalidated
ShouldFetch(c, k) == c[k] = Absent \/ c[k].stale

StartFetch_Resets(c, k) == [c EXCEPT ![k] = Absent]

\* what starting a fetch does to the entry: the previous data stays in place
\* while the fetch is in flight
StartFetch(c, k) == c

\* readers subscribed to the pending fetch of k
Awaiting(k) == {r \in Readers : reader[r].key = k}

\* the pending fetch of k has settled: its readers are released
Released(k) ==
  [r \in Readers |-> IF r \in Awaiting(k) THEN IdleReader ELSE reader[r]]

IssueFetch_Always(f, k) == TRUE

\* one fetch per fingerprint at a time: a fetcher is invoked only when no
\* fetch of the fingerprint is pending
IssueFetch(f, k) == k \notin f

\* read(fingerprint, fetcher) by reader r: the last known value is returned
\* at once; when the entry is absent or stale the reader subscribes to the
\* pending fetch of the fingerprint, issuing it when there is none
Read(r, k) ==
  /\ reader[r].key = NoKey
  /\ ShouldFetch(cache, k)
  /\ IF IssueFetch(fetching, k)
       THEN /\ fetching' = fetching \cup {k}
            /\ cache' = StartFetch(cache, k)
            /\ calls' = [calls EXCEPT ![k] = @ + 1]
       ELSE UNCHANGED <<fetching, cache, calls>>
  /\ reader' = [reader EXCEPT ![r] = [key |-> k, got |-> cache'[k].value]]
  /\ UNCHANGED <<server, mut, invoked, fine, nav, logout, tabs, book>>

\* a mounted query refetches when its data was invalidated
FetchStart(k) ==
  /\ k \notin fetching
  /\ ShouldFetch(cache, k)
  /\ fetching' = fetching \cup {k}
  /\ cache' = StartFetch(cache, k)
  /\ calls' = [calls EXCEPT ![k] = 1]
  /\ UNCHANGED <<server, mut, invoked, fine, reader, nav, logout, tabs, book>>

FetchResolve(k) ==
  /\ k \in fetching
  /\ cache' = SetQueryData(cache, k, server)
  /\ fetching' = fetching \ {k}
  /\ reader' = Released(k)
  /\ calls' = [calls EXCEPT ![k] = 0]
  /\ UNCHANGED <<server, mut, invoked, fine, nav, logout, tabs, book>>

\* a fetch that starts and resolves with no other event in between
Fetch(k) ==
  /\ k \notin fetching
  /\ ShouldFetch(cache, k)
  /\ cache' = SetQueryData(StartFetch(cache, k), k, server)
  /\ UNCHANGED <<fetching, server, mut, invoked, fine, reader, calls, nav, logout, tabs, book>>

FetchFail(k) ==
  /\ k \in fetching
  /\ fetching' = fetching \ {k}
  /\ reader' = Released(k)
  /\ calls' = [calls EXCEPT ![k] = 0]
  /\ UNCHANGED <<cache, server, mut, invoked, fine, nav, logout, tabs, book>>

\* ------------------------------------------------------------------------
\* Mutations (useMutation): mutate -> mutationFn -> onSuccess | onError
\* ------------------------------------------------------------------------
Executing(p) ==
  [IdleMutation EXCEPT !.phase = "executing", !.payload = p, !.calls = 1,
                       !.trail = <<"Executing">>]

\* hooks invoked straight from a button or form handler
DirectKinds == Kinds \ {"updateFineConfig", "updateOverdueFines"}

Mutate(o, p) ==
  /\ o \in DirectKinds
  /\ mut[o].phase = "idle"
  /\ invoked < MaxInvocations
  /\ invoked' = invoked + 1
  /\ mut' = [mut EXCEPT ![o] = Executing(p)]
  /\ UNCHANGED <<cache, fetching, server, fine, reader, calls, nav, logout, tabs, book>>

\* the service applies the operation and answers with the entity's fresh
\* canonical state
ServiceSucceed(o) ==
  /\ mut[o].phase = "executing"
  /\ server' = [data |-> mut[o].payload, rev |-> server.rev + 1]
  /\ mut' = [mut EXCEPT ![o].phase = "succeeded", ![o].data = server',
                        ![o].trail = Append(@, "Succeeded")]
  /\ UNCHANGED <<cache, fetching, invoked, fine, reader, calls, nav, logout, tabs, book>>

\* mutationFn threw an Error carrying `message`: retried while the failure
\* count is below the retry option, failed otherwise
Throw(o, svcMsg, message, cause) ==
  IF mut[o].failureCount < MutationRetry
    THEN mut' = [mut EXCEPT ![o].failureCount = @ + 1, ![o].calls = @ + 1]
    ELSE mut' = [mut EXCEPT ![o].phase = "failed", ![o].svc = svcMsg,
                            ![o].message = message, ![o].cause = cause,
                            ![o].trail = Append(@, "Failed")]

\* the service is reachable and rejects the operation
ServiceReject(o, svcMsg) ==
  /\ mut[o].phase = "executing"
  /\ svcMsg \in SvcMsgs(o)
  /\ Throw(o, svcMsg, ThrownMessage(o, svcMsg), "service")
  /\ UNCHANGED <<cache, fetching, server, invoked, fine, reader, calls, nav, logout, tabs, book>>

\* the call itself throws: the service was not reached
NetworkFail(o, netMsg) ==
  /\ mut[o].phase = "executing"
  /\ Throw(o, <<>>, netMsg, "network")
  /\ UNCHANGED <<cache, fetching, server, invoked, fine, reader, calls, nav, logout, tabs, book>>

SuccessToast(kind) ==
  [severity |-> "success", title |-> kind, text |-> <<"success">>]

ErrorToast(kind, message) ==
  [severity |-> "error", title |-> kind, text |-> ErrorToastText(kind, message)]

\* fingerprints a reconciliation overwrote / newly left invalidated
Wrote(c, d) == {k \in Keys : d[k].at # c[k].at}

Marked(c, d) == {k \in Keys : d[k].stale /\ (d[k].at # c[k].at \/ ~c[k].stale)}

HookReconcile_NoReturnInvalidation(kind, c, data) ==
  IF kind = "returnBook" THEN c ELSE HookInvalidation(kind, c)

HookReconcile_BorrowOverwrites(kind, c, data) ==
  IF kind = "borrow"
    THEN SetQueryData(HookInvalidation(kind, c), KBorrows, data)
    ELSE HookInvalidation(kind, c)

\* cache calls of onSuccess in hooks/useMutations: the invalidation helpers
HookReconcile(kind, c, data) == HookInvalidation(kind, c)

HookSuccessNotes_Silent(kind) == <<>>

HookSuccessNotes(kind) == <<SuccessToast(kind)>>

\* FineManagement passes mutate() an onSuccess that starts the overdue-fines
\* mutation with the same amount
ChainsTo(o) == IF o = "updateFineConfig" THEN {"updateOverdueFines"} ELSE {}

\* hooks whose onSuccess is async and awaits a GET before its cache calls
AwaitKinds == {"updateResource"}

OnSuccess(o) ==
  /\ mut[o].phase = "succeeded"
  /\ o \notin AwaitKinds
  /\ \A n \in ChainsTo(o) : mut[n].phase = "idle"
  /\ cache' = HookReconcile(o, cache, mut[o].data)
  /\ mut' = [n \in Kinds |->
       IF n = o THEN [mut[o] EXCEPT
            !.phase = "notified",
            !.wrote = Wrote(cache, cache'),
            !.marked = Marked(cache, cache'),
            !.notes = @ \o HookSuccessNotes(o),
            !.trail = @ \o <<"Reconciling", "Notified">>]
       ELSE IF n \in ChainsTo(o) THEN Executing(mut[o].payload)
       ELSE mut[n]]
  /\ UNCHANGED <<fetching, server, invoked, fine, reader, calls, nav, logout, tabs, book>>

\* guide, useUpdateResource.onSuccess up to its await: the GET for the
\* complete resource is issued
OnSuccessBegin(o) ==
  /\ mut[o].phase = "succeeded"
  /\ o \in AwaitKinds
  /\ mut' = [mut EXCEPT ![o].phase = "reconciling",
                        ![o].trail = Append(@, "Reconciling")]
  /\ UNCHANGED <<cache, fetching, server, invoked, fine, reader, calls, nav, logout, tabs, book>>

GuideDirectUpdate_AppliesDelta(c, fresh) ==
  LET patched(k) == [data |-> c[k].value.data + fresh.data, rev |-> fresh.rev]
  IN  [k \in Keys |->
         IF k = KResource \/ (k[1] = "resources" /\ c[k].at # 0)
           THEN SetQueryData(c, k, patched(k))[k]
           ELSE c[k]]

\* setQueryData(["resource", id], apiData.resource), then every cached
\* ["resources", ...] list is patched with it
GuideDirectUpdate(c, fresh) ==
  LET c1 == SetQueryData(c, KResource, fresh)
  IN  [k \in Keys |-> IF k[1] = "resources" /\ c1[k] # Absent
                        THEN SetQueryData(c1, k, fresh)[k]
                        ELSE c1[k]]

\* the rest of useUpdateResource.onSuccess once the GET has settled
GuideReconcile(c, getOk, fresh) ==
  InvalidateAfterResourceChange(IF getOk THEN GuideDirectUpdate(c, fresh) ELSE c)

OnSuccessFinish(o, getOk) ==
  /\ mut[o].phase = "reconciling"
  /\ cache' = GuideReconcile(cache, getOk, server)
  /\ mut' = [mut EXCEPT
       ![o].phase = "notified",
       ![o].wrote = Wrote(cache, cache'),
       ![o].marked = Marked(cache, cache'),
       ![o].notes = Append(@, SuccessToast(o)),
       ![o].trail = Append(@, "Notified")]
  /\ UNCHANGED <<fetching, server, invoked, fine, reader, calls, nav, logout, tabs, book>>

OnErrorCache_Invalidates(kind, c) == HookInvalidation(kind, c)

\* onError of every hook: a toast, no cache call
OnErrorCache(kind, c) == c

OnErrorNotes(kind, message) == <<ErrorToast(kind, message)>>

OnError_Reconciles(o) ==
  /\ mut[o].phase = "failed"
  /\ cache' = HookInvalidation(o, cache)
  /\ mut' = [mut EXCEPT
       ![o].phase = "notified",
       ![o].notes = @ \o OnErrorNotes(o, mut[o].message),
       ![o].trail = @ \o <<"Reconciling", "Notified">>]
  /\ UNCHANGED <<fetching, server, invoked, fine, reader, calls, nav, logout, tabs, book>>

OnError(o) ==
  /\ mut[o].phase = "failed"
  /\ cache' = OnErrorCache(o, cache)
  /\ mut' = [mut EXCEPT
       ![o].phase = "notified",
       ![o].notes = @ \o OnErrorNotes(o, mut[o].message),
       ![o].trail = Append(@, "Notified")]
  /\ UNCHANGED <<fetching, server, invoked, fine, reader, calls, nav, logout, tabs, book>>

\* the mutation has settled; the hook accepts the next mutate()
Settle(o) ==
  /\ mut[o].phase = "notified"
  /\ mut' = [mut EXCEPT ![o] = IdleMutation]
  /\ UNCHANGED <<cache, fetching, server, invoked, fine, reader, calls, nav, logout, tabs, book>>

\* ------------------------------------------------------------------------
\* FineManagement
\* ------------------------------------------------------------------------
\* onChange of the amount input
SetEditableAmount(a) ==
  /\ fine.editableAmount # a
  /\ fine' = [fine EXCEPT !.editableAmount = a]
  /\ UNCHANGED <<cache, fetching, server, mut, invoked, reader, calls, nav, logout, tabs, book>>

SaveDisabled == IsPending("updateFineConfig") \/ IsPending("updateOverdueFines")

\* toasts handleSaveAmount emits when it rejects the amount
InvalidAmountNotes == <<>>

\* click on "Save Fine"
HandleSaveAmount ==
  /\ ~SaveDisabled
  /\ IF fine.editableAmount < 0
       THEN /\ fine' = [fine EXCEPT !.lastSave = "rejected",
                                     !.notes = InvalidAmountNotes]
            /\ UNCHANGED <<mut, invoked>>
       ELSE /\ mut["updateFineConfig"].phase = "idle"
            /\ invoked < MaxInvocations
            /\ invoked' = invoked + 1
            /\ mut' = [mut EXCEPT !["updateFineConfig"] =
                                     Executing(fine.editableAmount)]
            /\ fine' = [fine EXCEPT !.lastSave = "submitted", !.notes = <<>>]
  /\ UNCHANGED <<cache, fetching, server, reader, calls, nav, logout, tabs, book>>

\* ------------------------------------------------------------------------
\* BorrowBook
\* ------------------------------------------------------------------------
\* the component is rendered while its book page is shown
BorrowBookMounted(n) == n.page = "/books/b1"

\* disabled={borrowBookMutation.isPending || !isEligible}
BorrowDisabled == IsPending("borrow") \/ ~nav.isEligible

RouterPush(n) == [n EXCEPT !.page = "/my-profile", !.log = Append(@, "push")]

AfterMutate_Navigates(n) == RouterPush(n)

\* what handleBorrowBook does after it has called mutate(): nothing
AfterMutate(n) == n

\* click on "Borrow Book"
HandleBorrowBook ==
  /\ BorrowBookMounted(nav)
  /\ ~BorrowDisabled
  /\ nav.isEligible
  /\ mut["borrow"].phase = "idle"
  /\ invoked < MaxInvocations
  /\ invoked' = invoked + 1
  /\ mut' = [mut EXCEPT !["borrow"] = Executing(1)]
  /\ nav' = AfterMutate([nav EXCEPT !.log = Append(@, "mutate")])
  /\ UNCHANGED <<cache, fetching, server, fine, reader, calls, logout, tabs, book>>

\* the onSuccess passed to mutate(): it runs only while the component is
\* mounted; one revision starts a 200 ms timer, the other navigates at once
MutateOnSuccess(n) ==
  IF ~BorrowBookMounted(n) THEN n
  ELSE IF n.delayed
    THEN [n EXCEPT !.timers = @ + 1, !.log = Append(@, "setTimeout")]
    ELSE RouterPush(n)

\* useBorrowBook.onSuccess (invalidation, toast), then the onSuccess passed
\* to mutate()
BorrowOnSuccess ==
  /\ mut["borrow"].phase = "succeeded"
  /\ cache' = HookReconcile("borrow", cache, mut["borrow"].data)
  /\ mut' = [mut EXCEPT
       !["borrow"].phase = "notified",
       !["borrow"].wrote = Wrote(cache, cache'),
       !["borrow"].marked = Marked(cache, cache'),
       !["borrow"].notes = @ \o HookSuccessNotes("borrow"),
       !["borrow"].trail = @ \o <<"Reconciling", "Notified">>]
  /\ nav' = MutateOnSuccess([nav EXCEPT !.log = @ \o <<"invalidate", "toast">>])
  /\ UNCHANGED <<fetching, server, invoked, fine, reader, calls, logout, tabs, book>>

\* the timer set by the onSuccess passed to mutate() fires
TimerFire ==
  /\ nav.timers > 0
  /\ nav' = RouterPush([nav EXCEPT !.timers = @ - 1])
  /\ UNCHANGED <<cache, fetching, server, mut, invoked, fine, reader, calls, logout, tabs, book>>

\* ------------------------------------------------------------------------
\* The application: the hooks of hooks/useMutations over the queries they
\* invalidate
Next ==
  \/ \E k \in AppKeys : Fetch(k)
  \/ \E o \in HookKinds, p \in Payloads : Mutate(o, p)
  \/ \E o \in HookKinds : ServiceSucceed(o)
  \/ \E o \in HookKinds : \E m \in SvcMsgs(o) : ServiceReject(o, m)
  \/ \E o \in HookKinds, m \in NetMsgs : NetworkFail(o, m)
  \/ \E o \in HookKinds : OnSuccess(o)
  \/ \E o \in HookKinds : OnError(o)
  \/ \E o \in HookKinds : Settle(o)
  \/ HandleSaveAmount

Spec == Init /\ [][Next]_vars

\* FineManagement: the amount input, the save button and the two mutations
\* the save chains
FineKinds == {"updateFineConfig", "updateOverdueFines"}

FineNext ==
  \/ \E k \in AppKeys : Fetch(k)
  \/ \E a \in Amounts : SetEditableAmount(a)
  \/ HandleSaveAmount
  \/ \E o \in FineKinds : ServiceSucceed(o)
  \/ \E o \in FineKinds : \E m \in SvcMsgs(o) : ServiceReject(o, m)
  \/ \E o \in FineKinds, m \in NetMsgs : NetworkFail(o, m)
  \/ \E o \in FineKinds : OnSuccess(o)
  \/ \E o \in FineKinds : OnError(o)
  \/ \E o \in FineKinds : Settle(o)

FineSpec == Init /\ [][FineNext]_vars

\* The guide's resource hooks over the guide's queries
GuideNext ==
  \/ \E k \in GuideKeys : FetchStart(k)
  \/ \E k \in GuideKeys : FetchResolve(k)
  \/ \E k \in GuideKeys : FetchFail(k)
  \/ \E o \in GuideKinds, p \in Payloads : Mutate(o, p)
  \/ \E o \in GuideKinds : ServiceSucceed(o)
  \/ \E o \in GuideKinds : \E m \in SvcMsgs(o) : ServiceReject(o, m)
  \/ \E o \in GuideKinds, m \in NetMsgs : NetworkFail(o, m)
  \/ \E o \in GuideKinds : OnSuccess(o)
  \/ \E o \in GuideKinds : OnSuccessBegin(o)
  \/ \E o \in GuideKinds, getOk \in BOOLEAN : OnSuccessFinish(o, getOk)
  \/ \E o \in GuideKinds : OnError(o)
  \/ \E o \in GuideKinds : Settle(o)

GuideSpec == Init /\ [][GuideNext]_vars

\* Components reading the guide's queries while a resource is updated
ReadKeys == {KResource, KDashboard}

ReadKinds == {"updateResource"}

ReadNext ==
  \/ \E r \in Readers, k \in ReadKeys : Read(r, k)
  \/ \E k \in ReadKeys : FetchResolve(k)
  \/ \E k \in ReadKeys : FetchFail(k)
  \/ \E o \in ReadKinds, p \in Payloads : Mutate(o, p)
  \/ \E o \in ReadKinds : ServiceSucceed(o)
  \/ \E o \in ReadKinds : \E m \in SvcMsgs(o) : ServiceReject(o, m)
  \/ \E o \in ReadKinds, m \in NetMsgs : NetworkFail(o, m)
  \/ \E o \in ReadKinds : OnSuccessBegin(o)
  \/ \E o \in ReadKinds, getOk \in BOOLEAN : OnSuccessFinish(o, getOk)
  \/ \E o \in ReadKinds : OnError(o)
  \/ \E o \in ReadKinds : Settle(o)

ReadSpec == Init /\ [][ReadNext]_vars

\* BorrowBook on a book page, in either revision of the component
BorrowInit ==
  /\ cache = [k \in Keys |-> Absent]
  /\ fetching = {}
  /\ server = [data |-> 0, rev |-> 0]
  /\ mut = [o \in Kinds |-> IdleMutation]
  /\ invoked = 0
  /\ fine = [editableAmount |-> 1, lastSave |-> "none", notes |-> <<>>]
  /\ reader = [r \in Readers |-> IdleReader]
  /\ calls = [k \in Keys |-> 0]
  /\ \E isEligible \in BOOLEAN, delayed \in BOOLEAN :
       nav = BookPage(isEligible, delayed)
  /\ logout = LogoutControl("ProfileDropdown")
  /\ tabs = ProfileTabs(NoData)
  /\ book = BookProps(1, TRUE, "APPROVED")

BorrowNext ==
  \/ \E k \in AppKeys : Fetch(k)
  \/ HandleBorrowBook
  \/ ServiceSucceed("borrow")
  \/ \E m \in SvcMsgs("borrow") : ServiceReject("borrow", m)
  \/ \E m \in NetMsgs : NetworkFail("borrow", m)
  \/ BorrowOnSuccess
  \/ OnError("borrow")
  \/ TimerFire
  \/ Settle("borrow")

BorrowSpec == BorrowInit /\ [][BorrowNext]_vars

\* ------------------------------------------------------------------------
\* Logout (ProfileDropdown.handleLogout, LogoutButton.handleLogout)
\* ------------------------------------------------------------------------
MaxLogouts == 2

LogoutControls == {"ProfileDropdown", "LogoutButton"}

ClearCache_Keeps(c) == c

\* queryClient.clear(): every query is removed from the cache
ClearCache(c) == [k \in Keys |-> Absent]

\* the fingerprints that hold data
Cached(c) == {k \in Keys : c[k] # Absent}

LogoutGuard_Open(l) == FALSE

\* if (isLoggingOut) return;
LogoutGuard(l) == l.isLoggingOut

BeforeSignOut_ClearsFirst(control) ==
  IF control = "LogoutButton"
    THEN <<"invalidate", "clear", "toast">>
    ELSE <<"toast", "cookie">>

\* what handleLogout does between setIsLoggingOut(true) and signOut():
\* LogoutButton notifies, invalidates and clears; ProfileDropdown notifies
\* and sets the logout-in-progress cookie
BeforeSignOut(control) ==
  IF control = "LogoutButton"
    THEN <<"toast", "invalidate", "clear">>
    ELSE <<"toast", "cookie">>

\* the elements of a sequence
Range(q) == {q[i] : i \in 1..Len(q)}

\* the document the control lives in is still shown
LogoutMounted(l) == l.page = "/app"

\* click on the logout control
HandleLogout ==
  /\ LogoutMounted(logout)
  /\ logout.clicks < MaxLogouts
  /\ IF LogoutGuard(logout)
       THEN /\ logout' = [logout EXCEPT !.clicks = @ + 1]
            /\ UNCHANGED <<cache, fetching>>
       ELSE /\ logout' = [logout EXCEPT
                 !.clicks = @ + 1, !.isLoggingOut = TRUE,
                 !.signOut = "pending",
                 !.removed =
                   IF "clear" \in Range(BeforeSignOut(logout.control))
                     THEN Cached(cache) ELSE @,
                 !.log = @ \o <<"click">> \o BeforeSignOut(logout.control)
                           \o <<"signOut">>]
            /\ IF "clear" \in Range(BeforeSignOut(logout.control))
                 THEN /\ cache' = ClearCache(cache)
                      /\ fetching' = {}
                 ELSE UNCHANGED <<cache, fetching>>
  /\ UNCHANGED <<server, mut, invoked, fine, reader, calls, nav, tabs, book>>

\* signOut({redirect: true, callbackUrl: "/sign-in"}) resolves: the browser
\* is sent to the sign-in page; ProfileDropdown then starts the 500 ms timer
SignOutResolve ==
  /\ logout.signOut = "pending"
  /\ logout' = [logout EXCEPT
       !.signOut = "resolved",
       !.timers = IF logout.control = "ProfileDropdown" THEN @ + 1 ELSE @,
       !.log = @ \o <<"redirect">> \o
               (IF logout.control = "ProfileDropdown"
                  THEN <<"setTimeout">> ELSE <<>>)]
  /\ UNCHANGED <<cache, fetching, server, mut, invoked, fine, reader, calls,
                 nav, tabs, book>>

\* signOut() throws: the catch block resets the flag and shows the error
SignOutReject ==
  /\ logout.signOut = "pending"
  /\ logout' = [logout EXCEPT
       !.signOut = "rejected", !.isLoggingOut = FALSE,
       !.log = Append(@, "errorToast")]
  /\ UNCHANGED <<cache, fetching, server, mut, invoked, fine, reader, calls,
                 nav, tabs, book>>

\* setTimeout(() => { queryClient.clear(); }, 500) fires
LogoutTimerFire ==
  /\ logout.timers > 0
  /\ LogoutMounted(logout)
  /\ cache' = ClearCache(cache)
  /\ fetching' = {}
  /\ logout' = [logout EXCEPT !.timers = @ - 1, !.removed = Cached(cache),
                              !.log = Append(@, "clear")]
  /\ UNCHANGED <<server, mut, invoked, fine, reader, calls, nav, tabs, book>>

\* the redirect completes: the document is replaced by the sign-in page, and
\* its timers and its QueryClient go with it
LeavePage ==
  /\ logout.signOut = "resolved"
  /\ LogoutMounted(logout)
  /\ cache' = ClearCache(cache)
  /\ fetching' = {}
  /\ logout' = [logout EXCEPT !.page = "/sign-in", !.timers = 0,
                              !.log = Append(@, "unload")]
  /\ UNCHANGED <<server, mut, invoked, fine, reader, calls, nav, tabs, book>>

\* a query of the signed-in pages fetches while their document is shown
SignedInFetch(k) == LogoutMounted(logout) /\ Fetch(k)

LogoutInit ==
  /\ cache = [k \in Keys |-> Absent]
  /\ fetching = {}
  /\ server = [data |-> 0, rev |-> 0]
  /\ mut = [o \in Kinds |-> IdleMutation]
  /\ invoked = 0
  /\ fine = [editableAmount |-> 1, lastSave |-> "none", notes |-> <<>>]
  /\ reader = [r \in Readers |-> IdleReader]
  /\ calls = [k \in Keys |-> 0]
  /\ nav = BookPage(TRUE, TRUE)
  /\ \E control \in LogoutControls : logout = LogoutControl(control)
  /\ tabs = ProfileTabs(NoData)
  /\ book = BookProps(1, TRUE, "APPROVED")

LogoutNext ==
  \/ \E k \in AppKeys : SignedInFetch(k)
  \/ HandleLogout
  \/ SignOutResolve
  \/ SignOutReject
  \/ LogoutTimerFire
  \/ LeavePage

LogoutSpec == LogoutInit /\ [][LogoutNext]_vars

\* timers fire and a navigation that has begun completes
LogoutFairSpec ==
  LogoutSpec /\ WF_vars(LogoutTimerFire) /\ WF_vars(LeavePage)

\* ------------------------------------------------------------------------
\* MyProfileTabs
\* ------------------------------------------------------------------------
MaxDeliveries == 3

\* the logout-in-progress cookie is set
LogoutInProgress == "cookie" \in Range(logout.log)

\* what the borrow-records API may answer for record r1 over time
R1Variants ==
  {BorrowRecord("r1", "BORROWED", 1, "0"), BorrowRecord("r1", "BORROWED", 2, "0"),
   BorrowRecord("r1", "BORROWED", 1, "5"), BorrowRecord("r1", "RETURNED", 1, "0")}

R2 == BorrowRecord("r2", "BORROWED", 1, "0")

\* the lists a refetch of the user's borrows may deliver
BorrowLists ==
  {<<>>, <<R2>>} \cup {<<v>> : v \in R1Variants}
    \cup {<<v, R2>> : v \in R1Variants}

\* the SSR props: no initial history, or a history of one record
InitialHistories ==
  {NoData,
   Data(<<TransformedRecord(BorrowRecord("r1", "BORROWED", 1, "0"), 0)>>)}

\* a refetch of the user's borrows resolves and the component renders
Deliver(d) ==
  /\ tabs.deliveries < MaxDeliveries
  /\ tabs' = Rendered([tabs EXCEPT !.deliveries = @ + 1], Data(d),
                      LogoutInProgress)
  /\ UNCHANGED <<cache, fetching, server, mut, invoked, fine, reader, calls,
                 nav, logout, book>>

TabsInit ==
  /\ cache = [k \in Keys |-> Absent]
  /\ fetching = {}
  /\ server = [data |-> 0, rev |-> 0]
  /\ mut = [o \in Kinds |-> IdleMutation]
  /\ invoked = 0
  /\ fine = [editableAmount |-> 1, lastSave |-> "none", notes |-> <<>>]
  /\ reader = [r \in Readers |-> IdleReader]
  /\ calls = [k \in Keys |-> 0]
  /\ nav = BookPage(TRUE, TRUE)
  /\ logout = LogoutControl("ProfileDropdown")
  /\ \E initial \in InitialHistories : tabs = ProfileTabs(initial)
  /\ book = BookProps(1, TRUE, "APPROVED")

TabsNext == \E d \in BorrowLists : Deliver(d)

TabsSpec == TabsInit /\ [][TabsNext]_vars

\* MyProfileTabs: the return buttons of the borrowed records
MaxReturnClicks == 2

\* disabled={(returnBookMutation.isPending && returningRecordIdRef.current
\* === record.id) || returningRecordIdRef.current === record.id}
ReturnDisabled(t, id) ==
  \/ (IsPending("returnBook") /\ t.returningRecordId = id)
  \/ t.returningRecordId = id

\* the record is shown with a return button
HasReturnButton(t, id) == IndexOf(ActiveBorrows(t), id) # 0

ReturnGuard_SameRecordOnly(t, id) == t.returningRecordId = id

\* the early returns of handleReturnBook: this record is being returned, or
\* a return mutation is pending
ReturnGuard(t, id) ==
  t.returningRecordId = id \/ IsPending("returnBook")

\* click on the return button of a record
HandleReturnBook(id) ==
  /\ HasReturnButton(tabs, id)
  /\ Len(tabs.clickLog) < MaxReturnClicks
  /\ IF ReturnGuard(tabs, id)
       THEN /\ tabs' = [tabs EXCEPT !.clickLog = Append(@, id)]
            /\ UNCHANGED mut
       ELSE /\ tabs' = [tabs EXCEPT !.clickLog = Append(@, id),
                                    !.returningRecordId = id,
                                    !.lastReturn = id, !.started = @ + 1]
            /\ mut' = [mut EXCEPT !["returnBook"] = Executing(1)]
  /\ UNCHANGED <<cache, fetching, server, invoked, fine, reader, calls, nav,
                 logout, book>>

\* the lists a refetch delivers while r1 is being returned
ReturnLists ==
  {<<BorrowRecord("r1", "BORROWED", 1, "0"), R2>>,
   <<BorrowRecord("r1", "RETURNED", 1, "0"), R2>>}

ReturnInit ==
  /\ cache = [k \in Keys |-> Absent]
  /\ fetching = {}
  /\ server = [data |-> 0, rev |-> 0]
  /\ mut = [o \in Kinds |-> IdleMutation]
  /\ invoked = 0
  /\ fine = [editableAmount |-> 1, lastSave |-> "none", notes |-> <<>>]
  /\ reader = [r \in Readers |-> IdleReader]
  /\ calls = [k \in Keys |-> 0]
  /\ nav = BookPage(TRUE, TRUE)
  /\ logout = LogoutControl("ProfileDropdown")
  /\ tabs = ProfileTabs(Data(<<
       TransformedRecord(BorrowRecord("r1", "BORROWED", 1, "0"), 0),
       TransformedRecord(R2, 0)>>))
  /\ book = BookProps(1, TRUE, "APPROVED")

ReturnNext ==
  \/ \E id \in RecordIds : HandleReturnBook(id)
  \/ \E d \in ReturnLists : Deliver(d)
  \/ ServiceSucceed("returnBook")
  \/ \E m \in SvcMsgs("returnBook") : ServiceReject("returnBook", m)
  \/ \E m \in NetMsgs : NetworkFail("returnBook", m)
  \/ OnSuccess("returnBook")
  \/ OnError("returnBook")
  \/ Settle("returnBook")

ReturnSpec == ReturnInit /\ [][ReturnNext]_vars

\* ------------------------------------------------------------------------
\* BookBorrowButton
\* ------------------------------------------------------------------------
MaxBorrowClicks == 2

\* the user's borrow record of the book as the service holds it: none, the
\* PENDING request a borrow creates, or a BORROWED record
HeldStatus(v) ==
  IF v.data = 0 THEN "NONE" ELSE IF v.data = 1 THEN "PENDING" ELSE "BORROWED"

\* userBorrows?.find(...): a BORROWED or PENDING record of this book in the
\* cached borrows of the user; undefined while the query holds no data
HasExistingBorrow(c) ==
  /\ c[KBorrows] # Absent
  /\ HeldStatus(c[KBorrows].value) \in {"BORROWED", "PENDING"}

IsBorrowed(c) ==
  c[KBorrows] # Absent /\ HeldStatus(c[KBorrows].value) = "BORROWED"

\* borrowingEligibility.isEligible
BorrowingEligibility(c, b) ==
  /\ b.availableCopies > 0
  /\ b.userStatus = "APPROVED"
  /\ b.isActive
  /\ ~HasExistingBorrow(c)

\* BorrowBook is rendered unless the user has a BORROWED record
ShowsBorrowBook(c) == ~(HasExistingBorrow(c) /\ IsBorrowed(c))

\* click on the "Borrow Book" button BookBorrowButton renders
ClickBorrowButton ==
  /\ BorrowBookMounted(nav)
  /\ ShowsBorrowBook(cache)
  /\ ~(IsPending("borrow") \/ ~BorrowingEligibility(cache, book))
  /\ BorrowingEligibility(cache, book)
  /\ invoked < MaxBorrowClicks
  /\ invoked' = invoked + 1
  /\ mut' = [mut EXCEPT !["borrow"] = Executing(1)]
  /\ nav' = AfterMutate([nav EXCEPT !.log = Append(@, "mutate")])
  /\ UNCHANGED <<cache, fetching, server, fine, reader, calls, logout, tabs,
                 book>>

\* a book page opened by a user who holds no record of the book, a PENDING
\* request or a BORROWED record
ButtonInit ==
  /\ cache = [k \in Keys |-> Absent]
  /\ fetching = {}
  /\ \E held \in 0..2 : server = [data |-> held, rev |-> 0]
  /\ mut = [o \in Kinds |-> IdleMutation]
  /\ invoked = 0
  /\ fine = [editableAmount |-> 1, lastSave |-> "none", notes |-> <<>>]
  /\ reader = [r \in Readers |-> IdleReader]
  /\ calls = [k \in Keys |-> 0]
  /\ \E delayed \in BOOLEAN : nav = BookPage(TRUE, delayed)
  /\ logout = LogoutControl("ProfileDropdown")
  /\ tabs = ProfileTabs(NoData)
  /\ \E availableCopies \in 0..1, isActive \in BOOLEAN,
        userStatus \in {"APPROVED", "PENDING"} :
       book = BookProps(availableCopies, isActive, userStatus)

ButtonNext ==
  \/ \E k \in AppKeys : Fetch(k)
  \/ ClickBorrowButton
  \/ ServiceSucceed("borrow")
  \/ \E m \in SvcMsgs("borrow") : ServiceReject("borrow", m)
  \/ \E m \in NetMsgs : NetworkFail("borrow", m)
  \/ BorrowOnSuccess
  \/ OnError("borrow")
  \/ TimerFire
  \/ Settle("borrow")

ButtonSpec == ButtonInit /\ [][ButtonNext]_vars

\* ------------------------------------------------------------------------
\* AdminBookRequestsList
\* ------------------------------------------------------------------------
MaxAdminClicks == 2

AdminBorrowKinds == {"approveBorrow", "rejectBorrow"}

ApproveRejectDisabled_Never == FALSE

\* disabled={approveBorrowMutation.isPending || rejectBorrowMutation.isPending}
ApproveRejectDisabled ==
  IsPending("approveBorrow") \/ IsPending("rejectBorrow")

\* click on Approve (handleApproveBorrow) or Reject (handleRejectBorrow) of
\* a PENDING request: the handler calls mutate() at once
HandleApproveReject(o) ==
  /\ o \in AdminBorrowKinds
  /\ ~ApproveRejectDisabled
  /\ invoked < MaxAdminClicks
  /\ invoked' = invoked + 1
  /\ mut' = [mut EXCEPT ![o] = Executing(1)]
  /\ UNCHANGED <<cache, fetching, server, fine, reader, calls, nav, logout,
                 tabs, book>>

AdminNext ==
  \/ \E k \in AppKeys : Fetch(k)
  \/ \E o \in AdminBorrowKinds : HandleApproveReject(o)
  \/ \E o \in AdminBorrowKinds : ServiceSucceed(o)
  \/ \E o \in AdminBorrowKinds : \E m \in SvcMsgs(o) : ServiceReject(o, m)
  \/ \E o \in AdminBorrowKinds, m \in NetMsgs : NetworkFail(o, m)
  \/ \E o \in AdminBorrowKinds : OnSuccess(o)
  \/ \E o \in AdminBorrowKinds : OnError(o)
  \/ \E o \in AdminBorrowKinds : Settle(o)

AdminSpec == Init /\ [][AdminNext]_vars

\* ------------------------------------------------------------------------
\* Properties
\* ------------------------------------------------------------------------
Succeeded(o) == mut[o].phase = "notified" /\ mut[o].cause = "none"

Failed(o) == mut[o].phase = "notified" /\ mut[o].cause # "none"

\* the step in which mutation o's success handler finishes
ReconciledStep(o) ==
  /\ mut[o].phase \in {"succeeded", "reconciling"}
  /\ mut'[o].phase = "notified"

\* C1: no fingerprint is both overwritten with fresh data and marked stale
\* by the same reconciliation; a fingerprint of the mutated entity that was
\* updated in place is not invalidated as well
C1_NoOverwriteAndInvalidate ==
  \A o \in Kinds :
    Succeeded(o) => mut[o].wrote \cap mut[o].marked = {}

\* C2: when a successful mutation's reconciliation finishes, every cached
\* fingerprint of the mutated entity is not stale and holds the fresh state
\* the service returned
C2_OwnEntryFreshStep ==
  \A o \in Kinds :
    ReconciledStep(o) =>
      \A k \in OwnKeys(o) :
        cache[k] # Absent =>
          /\ ~cache'[k].stale
          /\ cache'[k].value = mut[o].data

C2_OwnEntryFresh == [][C2_OwnEntryFreshStep]_vars

\* C3: when a successful mutation's reconciliation finishes, every cached
\* fingerprint its invalidation rule matches is stale and keeps the value
\* and lastFetchedAt it had
C3_RuleMarkedStaleStep ==
  \A o \in Kinds :
    ReconciledStep(o) =>
      \A k \in Matching(cache, InvalidationRule(o)) :
        /\ cache'[k].stale
        /\ cache'[k].value = cache[k].value
        /\ cache'[k].at = cache[k].at

C4_FailureKeepsCacheStep ==
  \A o \in Kinds :
    (mut'[o] # mut[o] /\ mut'[o].cause # "none") => cache' = cache

C4_FailureKeepsCache == [][C4_FailureKeepsCacheStep]_vars

C4_Witness ==
  /\ Failed("approveAdminRequest")
  /\ mut["approveAdminRequest"].cause = "service"
  /\ Includes(mut["approveAdminRequest"].svc, <<"already been processed">>)
  /\ cache[KBorrows] # Absent
  /\ ~cache[KBorrows].stale

\* C5: a mutation that has run its callbacks has emitted exactly one
\* notification, and none before
C5_ExactlyOneNotification ==
  \A o \in Kinds :
    /\ mut[o].phase = "notified" => Len(mut[o].notes) = 1
    /\ mut[o].phase # "notified" => Len(mut[o].notes) = 0

C5_Witness ==
  /\ Succeeded("returnBook")
  /\ Len(mut["returnBook"].notes) = 1
  /\ mut["returnBook"].notes[1].severity = "success"

\* C6: the lifecycle is Idle -> Executing -> Succeeded -> Reconciling ->
\* Notified -> Idle or Idle -> Executing -> Failed -> Notified -> Idle
SuccessTrail == <<"Executing", "Succeeded", "Reconciling", "Notified">>

FailureTrail == <<"Executing", "Failed", "Notified">>

IsPrefix(t, full) == Len(t) <= Len(full) /\ t = SubSeq(full, 1, Len(t))

C6_TrailOK ==
  \A o \in Kinds :
    /\ IsPrefix(mut[o].trail, SuccessTrail) \/ IsPrefix(mut[o].trail, FailureTrail)
    /\ mut[o].phase = "idle" <=> mut[o].trail = <<>>
    /\ mut[o].phase = "notified" <=> mut[o].trail \in {SuccessTrail, FailureTrail}
    /\ mut[o].phase = "notified" =>
         (mut[o].trail = FailureTrail <=> mut[o].cause # "none")

C6_StepOK ==
  \A o \in Kinds :
    /\ (mut[o].phase # "idle" /\ mut'[o].phase = "idle") => mut[o].phase = "notified"
    /\ (mut[o].phase = "failed" /\ mut'[o].phase # "failed") =>
         (mut'[o].phase = "notified" /\ cache' = cache)

C6_Lifecycle == [](C6_TrailOK) /\ [][C6_StepOK]_vars

C6_Witness ==
  /\ mut["approveAdminRequest"].trail = FailureTrail
  /\ mut["returnBook"].phase = "idle"
  /\ invoked = 1

\* C7: the failure notification includes the service's message when there is
\* one; a generic fallback text is shown only when the service gave none
FallbackTexts(o) == {DefaultMsg(o), FallbackMsg(o, mut[o].message)}

C7_ServiceMessageShown ==
  \A o \in Kinds :
    Failed(o) =>
      /\ mut[o].svc # <<>> => Includes(mut[o].notes[1].text, mut[o].svc)
      /\ mut[o].notes[1].text \in FallbackTexts(o) => mut[o].svc = <<>>

C7_Witness ==
  /\ Failed("borrow")
  /\ mut["borrow"].svc = PlainSvcMsg
  /\ mut["borrow"].notes[1].text = PlainSvcMsg

\* C8: a failure whose service message contains the recognised substring is
\* notified with the specific user message selected for that substring
C8_SpecificMessageShown ==
  \A o \in Kinds :
    (Failed(o) /\ Pattern(o) # <<>> /\ Includes(mut[o].svc, Pattern(o))) =>
      Includes(mut[o].notes[1].text, SpecificMsg(o))

\* C9: a save that handleSaveAmount rejected as invalid has produced a
\* notification
C9_ValidationFailureNotified ==
  fine.lastSave = "rejected" => Len(fine.notes) >= 1

\* C10: one mutate() makes at most one call to the service
C10_NoAutomaticRetry ==
  \A o \in Kinds : mut[o].calls <= 1 /\ mut[o].failureCount = 0

C10_Witness ==
  /\ Failed("borrow")
  /\ mut["borrow"].cause = "network"
  /\ mut["borrow"].calls = 1

\* C11: a successful approve-borrow overwrites the cached borrow-record
\* fingerprint with the fresh state (status BORROWED) and leaves it not
\* stale, and marks the cached books and admin-stats fingerprints stale
C11_ApproveBorrowStep ==
  ReconciledStep("approveBorrow") =>
    /\ \A k \in OwnKeys("approveBorrow") :
         cache[k] # Absent =>
           /\ cache'[k].at # cache[k].at
           /\ cache'[k].value = mut["approveBorrow"].data
           /\ ~cache'[k].stale
    /\ \A k \in Matching(cache, {<<"books">>, <<"admin-stats">>}) :
         cache'[k].stale

C11_ApproveBorrow == [][C11_ApproveBorrowStep]_vars

\* C12: a successful borrow marks every cached fingerprint under the
\* ["borrows"] and ["books"] prefixes stale and overwrites none: every entry
\* keeps its value, its lastFetchedAt and its presence
C12_BorrowOnlyMarksStaleStep ==
  ReconciledStep("borrow") =>
    /\ \A k \in Matching(cache, {<<"borrows">>, <<"books">>}) : cache'[k].stale
    /\ \A k \in Keys :
         /\ cache'[k].value = cache[k].value
         /\ cache'[k].at = cache[k].at
         /\ cache[k] = Absent <=> cache'[k] = Absent

C13_DeleteRemovesDetailStep ==
  \A o \in DeleteKinds :
    ReconciledStep(o) =>
      /\ \A k \in DetailKeys(o) : cache'[k] = Absent
      /\ \A k \in ListKeys(o) : cache[k] # Absent => cache'[k].stale

C13_DeleteRemovesDetail == [][C13_DeleteRemovesDetailStep]_vars

\* C13 as amended: a successful delete removes no entry: the cached detail
\* fingerprint of the deleted entity and the cached list fingerprints keep
\* their value and lastFetchedAt and are marked stale
C13_DeleteMarksStaleStep ==
  \A o \in DeleteKinds :
    ReconciledStep(o) =>
      \A k \in DetailKeys(o) \cup ListKeys(o) :
        IF cache[k] = Absent
          THEN cache'[k] = Absent
          ELSE cache'[k] = [cache[k] EXCEPT !.stale = TRUE]

C13_DeleteMarksStale == [][C13_DeleteMarksStaleStep]_vars

C13_Witness ==
  /\ Succeeded("deleteResource")
  /\ {KResource, KResources} \subseteq mut["deleteResource"].marked
  /\ cache[KResource] # Absent /\ cache[KResource].stale
  /\ cache[KResources] # Absent /\ cache[KResources].stale

C16_LastWriteWinsStep ==
  \A k \in Keys :
    IF cache'[k].at # cache[k].at
      THEN cache'[k].value = server
      ELSE cache'[k].value = cache[k].value

SameCacheState(c, d) ==
  \A k \in Keys :
    /\ c[k].value = d[k].value
    /\ c[k].stale = d[k].stale
    /\ (c[k].at = 0) = (d[k].at = 0)

C18_StaleReadServesLastValueStep ==
  \A k \in Keys :
    (cache[k].at # 0 /\ mut' = mut /\ ~(k \in fetching /\ k \notin fetching')) =>
      /\ cache'[k] = cache[k]
      /\ \A r \in Readers :
           (reader[r].key = NoKey /\ reader'[r].key = k) =>
             reader'[r].got = cache[k].value

C18_StaleReadServesLastValue == [][C18_StaleReadServesLastValueStep]_vars

C18_Witness ==
  /\ reader["a"].key = KDashboard
  /\ KDashboard \in fetching
  /\ cache[KDashboard].at # 0 /\ cache[KDashboard].stale
  /\ reader["a"].got = cache[KDashboard].value
  /\ reader["a"].got.rev < server.rev

\* C19: a fetcher is invoked only for a fingerprint that is absent or stale,
\* and a fetch that resolves leaves the entry present and not stale, so that
\* it is served from the cache until the next invalidation
C19_FetchOnlyWhenStaleStep ==
  \A k \in Keys :
    /\ calls'[k] > calls[k] => (cache[k].at = 0 \/ cache[k].stale)
    /\ (k \in fetching /\ k \notin fetching' /\ cache'[k].at # cache[k].at) =>
         (~cache'[k].stale /\ cache'[k].value = server)

C19_FetchOnlyWhenStale == [][C19_FetchOnlyWhenStaleStep]_vars

C19_Witness ==
  /\ Succeeded("updateResource")
  /\ KDashboard \in mut["updateResource"].marked
  /\ cache[KDashboard].at = 2
  /\ ~cache[KDashboard].stale
  /\ KDashboard \notin fetching
  /\ cache[KDashboard].value = server

\* C20: every navigation to the profile page follows the invalidation of the
\* borrow that caused it: at any point the component has navigated at most
\* as often as a borrow has been reconciled
CountIn(log, e, n) == Cardinality({i \in 1..n : log[i] = e})

C20_ReconcileBeforeNavigate ==
  /\ \A n \in 1..Len(nav.log) :
       CountIn(nav.log, "push", n) <= CountIn(nav.log, "invalidate", n)
  /\ nav.page = "/my-profile" => CountIn(nav.log, "push", Len(nav.log)) >= 1

C20_Witness ==
  /\ nav.page = "/my-profile"
  /\ nav.log = <<"mutate", "invalidate", "toast", "setTimeout", "push">>
  /\ {KBooks, KBorrows} \subseteq mut["borrow"].marked
  /\ cache[KBorrows].stale

\* C21: on every logout path the logout notification is emitted before the
\* cache is cleared: each clear in the event log follows a toast of the same
\* logout sequence
C21_NotifyBeforeClear ==
  \A i \in 1..Len(logout.log) :
    logout.log[i] = "clear" =>
      \E j \in 1..(i - 1) :
        /\ logout.log[j] = "toast"
        /\ \A m \in j..i : logout.log[m] # "click"

C21_Witness ==
  /\ logout.control = "LogoutButton"
  /\ logout.log = <<"click", "toast", "invalidate", "clear", "signOut">>
  /\ logout.removed = AppKeys
  /\ Cached(cache) = {}

C28_ClickInProgressStep ==
  (logout.isLoggingOut /\ logout'.clicks # logout.clicks) =>
    /\ logout'.log = logout.log
    /\ logout'.signOut = logout.signOut
    /\ cache' = cache

SignOutsAwaited ==
  CountIn(logout.log, "signOut", Len(logout.log))
    - CountIn(logout.log, "redirect", Len(logout.log))
    - CountIn(logout.log, "errorToast", Len(logout.log))

C28_OneLogoutSequence ==
  [](SignOutsAwaited <= 1) /\ [][C28_ClickInProgressStep]_vars

C28_Witness ==
  /\ logout.isLoggingOut
  /\ logout.signOut = "pending"
  /\ logout.clicks = 2
  /\ CountIn(logout.log, "click", Len(logout.log)) = 1

\* C22: when a refetch delivers borrow records equal by value to the records
\* transformed before, the derived list is the same array object holding the
\* same record objects
C22_SameDataSameObjectStep ==
  (/\ tabs'.deliveries # tabs.deliveries
   /\ tabs'.data = tabs.data
   /\ Len(tabs.data.items) > 0) =>
    tabs'.allBorrowsFromQuery = tabs.allBorrowsFromQuery

ShownAs(t, i) ==
  [id |-> t.allBorrowsFromQuery.items[i].id,
   dueDate |-> t.allBorrowsFromQuery.items[i].dueDate,
   returnDate |-> t.allBorrowsFromQuery.items[i].returnDate,
   fineAmount |-> t.allBorrowsFromQuery.items[i].fineAmount]

\* C23: the derived list holds the values of the refetched data: for every
\* record of the query data, the record shown at its position has its id,
\* dueDate, returnDate and fineAmount
C23_RefetchedValuesShown ==
  (tabs.data.defined /\ Len(tabs.data.items) > 0 /\ ~LogoutInProgress) =>
    /\ Len(tabs.allBorrowsFromQuery.items) = Len(tabs.data.items)
    /\ \A i \in 1..Len(tabs.data.items) :
         ShownAs(tabs, i) =
           [id |-> tabs.data.items[i].id,
            dueDate |-> tabs.data.items[i].dueDate,
            returnDate |-> tabs.data.items[i].returnDate,
            fineAmount |-> ParseFloat(tabs.data.items[i].fineAmount)]

\* the ids and statuses of a list of records
Outline(items) ==
  [i \in 1..Len(items) |-> <<items[i].id, items[i].status>>]

\* C24: once the query holds data the history tab shows the records of the
\* query data, whatever the initial props and the list shown before; an
\* empty query result shows no record
C24_QueryDataPreferred ==
  (tabs.data.defined /\ ~LogoutInProgress) =>
    Outline(BorrowHistory(tabs)) = Outline(tabs.data.items)

\* C25: once a return mutation has failed, the return button of its record
\* is enabled again, so that a click on it can start a new return
C25_RetryAfterFailure ==
  \A id \in RecordIds :
    (/\ Failed("returnBook")
     /\ tabs.lastReturn = id
     /\ HasReturnButton(tabs, id)) =>
      /\ ~ReturnDisabled(tabs, id)
      /\ ~ReturnGuard(tabs, id)

\* C26: a return mutation is started only while none is pending, and a click
\* on any return button while one is pending leaves the mutation as it is
C26_OneReturnInFlightStep ==
  /\ tabs'.started # tabs.started => ~IsPending("returnBook")
  /\ (IsPending("returnBook") /\ tabs'.clickLog # tabs.clickLog) =>
       (mut' = mut /\ tabs'.started = tabs.started)

C26_OneReturnInFlight == [][C26_OneReturnInFlightStep]_vars

C26_Witness ==
  /\ IsPending("returnBook")
  /\ tabs.clickLog = <<"r1", "r2">>
  /\ tabs.started = 1
  /\ tabs.returningRecordId = "r1"

\* C29: a borrow mutation is issued from the borrow button only when the user
\* holds no PENDING or BORROWED record of the book, the book has available
\* copies and is active, and the user is APPROVED
C29_BorrowOnlyWhenEligibleStep ==
  invoked' # invoked =>
    /\ HeldStatus(server) = "NONE"
    /\ book.availableCopies > 0
    /\ book.isActive
    /\ book.userStatus = "APPROVED"

C29_BorrowOnlyWhenEligible == [][C29_BorrowOnlyWhenEligibleStep]_vars

\* C30: in the admin borrow-requests list the approve and the reject
\* mutation are never pending together, and an approve or reject is started
\* only while neither is pending
C30_StartStep ==
  invoked' # invoked =>
    (~IsPending("approveBorrow") /\ ~IsPending("rejectBorrow"))

C30_OneApproveOrReject ==
  /\ [](~(IsPending("approveBorrow") /\ IsPending("rejectBorrow")))
  /\ [][C30_StartStep]_vars

C30_Witness ==
  /\ IsPending("approveBorrow")
  /\ mut["rejectBorrow"].phase = "notified"
  /\ ApproveRejectDisabled
  /\ invoked = 2

====
